---- MODULE Spec2Model ----
(***************************************************************************)
(* A model of AsyncBaseCache (src/src/async-base-cache.ts): the key        *)
(* normalisation, the serialization boundary, the single-key operations    *)
(* and the default batch operations, over a shared physical store.         *)
(*                                                                         *)
(* The five backend primitives are abstract in the source; their           *)
(* behaviour is taken from the primitive contract of the specification.    *)
(***************************************************************************)
EXTENDS Integers, Sequences, FiniteSets, TLC

VARIABLES
    keyPrefix,      \* [Inst -> string]   AsyncBaseCache.keyPrefix of each instance
    serialization,  \* [Inst -> BOOLEAN]  AsyncBaseCache.serialization of each instance
    store,          \* the physical store: storage key -> [value, duration]
    src,            \* history: storage key -> the last thing that happened to it
    last,           \* history: the last public call and what it returned
    nops,           \* number of public calls made so far
    batch,          \* the running multiSet/multiAdd call
    tasks,          \* storage key -> the per-item primitive call of that batch
    failedKeys,     \* the failedKeys array of setValues/addValues (shared, live)
    returned,       \* the content of that array when the batch promise resolved
    unhandled,      \* storage keys whose per-item callback promise rejected
    built,          \* history: the calls of buildKey made by the application
    adds            \* caller -> the add call of that caller, while it runs

vars == <<keyPrefix, serialization, store, src, last, nops,
          batch, tasks, failedKeys, returned, unhandled, built, adds>>

(***************************************************************************)
(* Bounds of the model.                                                    *)
(***************************************************************************)
MaxOps == 3
MaxBatches == 2

(***************************************************************************)
(* JavaScript values. Every value is a record of the same shape, so that   *)
(* any two of them can be compared.  f is the field list of an object, in  *)
(* insertion order.                                                        *)
(***************************************************************************)
JsVal(t, b, n, s, f) == [t |-> t, b |-> b, n |-> n, s |-> s, f |-> f]
Undefined == JsVal("undefined", FALSE, 0, "", <<>>)
Null == JsVal("null", FALSE, 0, "", <<>>)
Bool(b) == JsVal("boolean", b, 0, "", <<>>)
Num(n) == JsVal("number", FALSE, n, "", <<>>)
Str(s) == JsVal("string", FALSE, 0, s, <<>>)
Obj(f) == JsVal("object", FALSE, 0, "", f)
\* a thrown error / a rejected promise, as the outcome of a call
Thrown(what) == JsVal("throw", FALSE, 0, what, <<>>)
IsThrown(v) == v.t = "throw"

\* the absence sentinel of getValue / get: the boolean false
False == Bool(FALSE)

isString(v) == v.t = "string"

(***************************************************************************)
(* String(v): the coercion JavaScript applies to a property name and to    *)
(* the argument of JSON.parse.                                             *)
(***************************************************************************)
Digit(d) == SubSeq("0123456789", d + 1, d + 1)

RECURSIVE NumText(_)
NumText(n) == IF n < 10 THEN Digit(n) ELSE NumText(n \div 10) \o Digit(n % 10)

ToStringJS(v) ==
    CASE v.t = "string" -> v.s
      [] v.t = "number" -> NumText(v.n)
      [] v.t = "boolean" -> (IF v.b THEN "true" ELSE "false")
      [] v.t = "null" -> "null"
      [] v.t = "undefined" -> "undefined"
      [] v.t = "object" -> "[object Object]"

(***************************************************************************)
(* JSON.stringify, for null, booleans, naturals, strings and flat objects. *)
(***************************************************************************)
RECURSIVE Escape(_)
Escape(s) ==
    IF s = "" THEN ""
    ELSE LET c == Head(s)
         IN (IF c = "\"" THEN "\\\""
             ELSE IF c = "\\" THEN "\\\\"
             ELSE c) \o Escape(Tail(s))

Quote(s) == "\"" \o Escape(s) \o "\""

RECURSIVE JSONstringify(_)
RECURSIVE Members(_)
Members(f) ==
    IF f = <<>> THEN ""
    ELSE Quote(f[1].k) \o ":" \o JSONstringify(f[1].v)
         \o (IF Len(f) > 1 THEN "," \o Members(Tail(f)) ELSE "")

JSONstringify(v) ==
    CASE v.t = "null" -> "null"
      [] v.t = "boolean" -> (IF v.b THEN "true" ELSE "false")
      [] v.t = "number" -> NumText(v.n)
      [] v.t = "string" -> Quote(v.s)
      [] v.t = "object" -> "{" \o Members(v.f) \o "}"

(***************************************************************************)
(* JSON.parse, a recursive-descent parser of the same subset.  A parse     *)
(* step returns [ok, v, rest].                                             *)
(***************************************************************************)
SyntaxError == Thrown("SyntaxError")

Res(ok, v, rest) == [ok |-> ok, v |-> v, rest |-> rest]
Fail == Res(FALSE, Undefined, "")

StartsWith(s, p) == Len(s) >= Len(p) /\ SubSeq(s, 1, Len(p)) = p
Drop(s, n) == SubSeq(s, n + 1, Len(s))

RECURSIVE SkipWs(_)
SkipWs(s) == IF s # "" /\ Head(s) = " " THEN SkipWs(Tail(s)) ELSE s

IsDigit(c) == c \in {"0", "1", "2", "3", "4", "5", "6", "7", "8", "9"}
DigitVal(c) == CHOOSE d \in 0..9 : Digit(d) = c

RECURSIVE ScanDigits(_, _)
ScanDigits(s, acc) ==
    IF s # "" /\ IsDigit(Head(s))
    THEN ScanDigits(Tail(s), 10 * acc + DigitVal(Head(s)))
    ELSE Res(TRUE, Num(acc), s)

\* "0" or a digit 1-9 followed by digits: JSON has no leading zeros
ParseNumber(s) ==
    IF Head(s) = "0" THEN Res(TRUE, Num(0), Tail(s)) ELSE ScanDigits(s, 0)

RECURSIVE ScanString(_, _)
ScanString(s, acc) ==
    IF s = "" THEN Fail
    ELSE LET c == Head(s)
         IN IF c = "\"" THEN Res(TRUE, Str(acc), Tail(s))
            ELSE IF c = "\\"
            THEN (IF Len(s) >= 2 /\ SubSeq(s, 2, 2) \in {"\"", "\\"}
                  THEN ScanString(Drop(s, 2), acc \o SubSeq(s, 2, 2))
                  ELSE Fail)
            ELSE ScanString(Tail(s), acc \o c)

ParseScalar(s) ==
    IF s = "" THEN Fail
    ELSE IF StartsWith(s, "null") THEN Res(TRUE, Null, Drop(s, 4))
    ELSE IF StartsWith(s, "true") THEN Res(TRUE, Bool(TRUE), Drop(s, 4))
    ELSE IF StartsWith(s, "false") THEN Res(TRUE, Bool(FALSE), Drop(s, 5))
    ELSE IF IsDigit(Head(s)) THEN ParseNumber(s)
    ELSE IF Head(s) = "\"" THEN ScanString(Tail(s), "")
    ELSE Fail

\* the members of a flat object, after the opening brace
RECURSIVE ParseMembers(_, _)
ParseMembers(s, acc) ==
    IF s = "" \/ Head(s) # "\"" THEN Fail
    ELSE LET k == ScanString(Tail(s), "")
         IN IF ~k.ok \/ k.rest = "" \/ Head(k.rest) # ":" THEN Fail
            ELSE LET m == ParseScalar(Tail(k.rest))
                     fs == Append(acc, [k |-> k.v.s, v |-> m.v])
                 IN IF ~m.ok \/ m.rest = "" THEN Fail
                    ELSE IF Head(m.rest) = "}" THEN Res(TRUE, Obj(fs), Tail(m.rest))
                    ELSE IF Head(m.rest) = "," THEN ParseMembers(Tail(m.rest), fs)
                    ELSE Fail

ParseValue(s) ==
    IF s # "" /\ Head(s) = "{"
    THEN (IF StartsWith(s, "{}") THEN Res(TRUE, Obj(<<>>), Drop(s, 2))
          ELSE ParseMembers(Tail(s), <<>>))
    ELSE ParseScalar(s)

JSONparse(x) ==
    LET r == ParseValue(SkipWs(ToStringJS(x)))
    IN IF r.ok /\ SkipWs(r.rest) = "" THEN r.v ELSE SyntaxError

(***************************************************************************)
(* mb5: the MD5 digest in hexadecimal, tabulated for the canonical texts   *)
(* the model's keys produce.                                               *)
(***************************************************************************)
LongKey == "kkkkkkkkkkkkkkkkkkkkkkkkkkkkkkkkk"
\* a string of 32 characters, which is also the digest of "1"
DigestOf1 == "c4ca4238a0b923820dcc509a6f75849b"
\* a string of 41 characters, which is also the JSON text of {n: LongKey}
LongText == "{\"n\":\"" \o LongKey \o "\"}"

mb5(data) ==
    CASE data = "1" -> DigestOf1
      [] data = "{\"id\":1}" -> "d2ce28b9a7fd7e4407e2b0fd499b7fe4"
      [] data = "{\"id\":2}" -> "4f56edcb1558d4df2f77295f86059006"
      [] data = LongKey -> "3dd6d14500533de0abb3ea135f7a82af"
      [] data = DigestOf1 -> "28c8edde3d61a0411511d3b1866f0636"
      [] data = LongText -> "819301358e79e7b97370f351d3ffc732"
      [] data = "{\"id\":1,\"tag\":\"x\"}" -> "0a62e891817d94cda5117a7a49c3578e"
      [] data = "{\"tag\":\"x\",\"id\":1}" -> "84d7e901cf944d367b408423ad40e453"

\* the longest string key that is used unhashed
MaxPlainKey == 32

\* the length of a digest: 128 bits in hexadecimal
DigestLen == 32

(***************************************************************************)
(* The cache instances.  c1 is constructed with the defaults, c2 with a    *)
(* prefix and without serialization; both use one physical store.          *)
(***************************************************************************)
Inst == {"c1", "c2"}

\* a slip: "<" for "<=", so that a string of 32 characters is hashed
buildKeyBelow32(i, key) ==
    IF isString(key)
    THEN keyPrefix[i] \o (IF Len(key.s) < MaxPlainKey THEN key.s ELSE mb5(key.s))
    ELSE keyPrefix[i] \o mb5(JSONstringify(key))

buildKey(i, key) ==
    IF isString(key)
    THEN keyPrefix[i] \o (IF Len(key.s) <= MaxPlainKey THEN key.s ELSE mb5(key.s))
    ELSE keyPrefix[i] \o mb5(JSONstringify(key))

\* a slip: the value is handed over without being encoded
encodeNothing(i, value) == value

\* set/add/multiSet/multiAdd: the value handed to the write primitive
encode(i, value) ==
    IF serialization[i] = TRUE THEN Str(JSONstringify(value)) ELSE value

\* a slip: the value is decoded whatever the serialization flag says
decodeAlways(i, value) == IF value = False THEN value ELSE JSONparse(value)

\* a slip: the test for absence left out
decodesAbsence(i, value) == ~(serialization[i] = FALSE)

\* get: whether the result of getValue goes through JSON.parse
decodes(i, value) == ~(value = False \/ serialization[i] = FALSE)

\* get: what is returned for the result of getValue
decode(i, value) == IF decodes(i, value) THEN JSONparse(value) ELSE value

(***************************************************************************)
(* The backend primitives, on a store st.  Each returns the new store and  *)
(* the result of the call.  fault is what the backend does with the call:  *)
(* "ok" (it performs it), "fail" (it reports false) or "reject" (the       *)
(* promise rejects); a failed or rejected call leaves the store alone.     *)
(***************************************************************************)
BackendFault == Thrown("BackendFault")

Prim(st, result) == [store |-> st, result |-> result]

Without(st, ks) == [x \in DOMAIN st \ ks |-> st[x]]

Refused(st, fault) ==
    IF fault = "fail" THEN Prim(st, Bool(FALSE)) ELSE Prim(st, BackendFault)

getValue(st, k, fault) ==
    IF fault # "ok" THEN Prim(st, BackendFault)
    ELSE Prim(st, IF k \in DOMAIN st THEN st[k].value ELSE False)

setValue(st, k, v, d, fault) ==
    IF fault # "ok" THEN Refused(st, fault)
    ELSE Prim((k :> [value |-> v, duration |-> d]) @@ st, Bool(TRUE))

addValue(st, k, v, d, fault) ==
    IF fault # "ok" THEN Refused(st, fault)
    ELSE IF k \in DOMAIN st THEN Prim(st, Bool(FALSE))
    ELSE Prim((k :> [value |-> v, duration |-> d]) @@ st, Bool(TRUE))

deleteValue(st, k, fault) ==
    IF fault # "ok" THEN Refused(st, fault)
    ELSE Prim(Without(st, {k}), Bool(TRUE))

flushValues(st, fault) ==
    IF fault # "ok" THEN Refused(st, fault)
    ELSE Prim(Without(st, DOMAIN st), Bool(TRUE))

(***************************************************************************)
(* History kept for stating the properties: what last happened to each     *)
(* storage key (src) and the last public call (last), with the primitive   *)
(* calls it issued and the entry of its storage key before and after.      *)
(***************************************************************************)
EmptyMap == [x \in {} |-> Undefined]

NoSrc == [op |-> "none", inst |-> "", key |-> Undefined, value |-> Undefined,
          refused |-> FALSE]
Wrote(op, i, key, value) ==
    [op |-> op, inst |-> i, key |-> key, value |-> value, refused |-> FALSE]
Gone(op) == [NoSrc EXCEPT !.op = op]
SrcOf(k) == IF k \in DOMAIN src THEN src[k] ELSE NoSrc
Note(k, rec) == (k :> rec) @@ src

Entry(st, k) == IF k \in DOMAIN st THEN st[k].value ELSE Undefined

PrimCall(prim, k, v, d) == [prim |-> prim, key |-> k, value |-> v, duration |-> d]

NoCall == [op |-> "none", inst |-> "", key |-> Undefined, keys |-> <<>>,
           value |-> Undefined, duration |-> 0, fault |-> "ok",
           result |-> Undefined, map |-> EmptyMap, values |-> EmptyMap,
           calls |-> <<>>,
           was |-> NoSrc, before |-> Undefined, after |-> Undefined,
           afterBatch |-> 0]

\* the number of the batch call whose promise has resolved, 0 if none has
Resolved == IF batch.state = "resolved" THEN batch.n ELSE 0

\* the record of a single-key call on storage key k that left the store st
Called(op, i, key, value, d, fault, result, call, k, st) ==
    [NoCall EXCEPT !.op = op, !.inst = i, !.key = key, !.value = value,
                   !.duration = d, !.fault = fault, !.result = result,
                   !.calls = <<call>>, !.was = SrcOf(k),
                   !.before = Entry(store, k), !.after = Entry(st, k),
                   !.afterBatch = Resolved]

BatchVars == <<batch, tasks, failedKeys, returned, unhandled>>
Config == <<keyPrefix, serialization>>

(***************************************************************************)
(* The primitive each write operation delegates to.                        *)
(***************************************************************************)
\* a slip: add delegating to the unconditional write
addCallOverwrites(st, k, v, d, fault) == setValue(st, k, v, d, fault)

addCall(st, k, v, d, fault) == addValue(st, k, v, d, fault)

\* a slip: a flush that clears only the caller's own prefix
flushCallOwnPrefix(i, st, fault) ==
    IF fault # "ok" THEN Refused(st, fault)
    ELSE Prim([k \in {x \in DOMAIN st : ~StartsWith(x, keyPrefix[i])} |-> st[k]],
              Bool(TRUE))

flushCall(i, st, fault) == flushValues(st, fault)

(***************************************************************************)
(* The single-key operations.                                              *)
(***************************************************************************)
\* a slip: a rejected read caught and reported as absence
getCatches(i, key, fault) ==
    /\ nops < MaxOps
    /\ LET k == buildKey(i, key)
           r == getValue(store, k, fault)
           result == IF IsThrown(r.result) THEN False ELSE decode(i, r.result)
           parse == IF ~IsThrown(r.result) /\ decodes(i, r.result)
                    THEN <<PrimCall("JSON.parse", "", r.result, 0)>> ELSE <<>>
       IN last' = [Called("get", i, key, Undefined, 0, fault, result,
                          PrimCall("getValue", k, Undefined, 0), k, store)
                     EXCEPT !.calls = @ \o parse]
    /\ nops' = nops + 1
    /\ UNCHANGED <<Config, built, adds, store, src, BatchVars>>

get(i, key, fault) ==
    /\ nops < MaxOps
    /\ LET k == buildKey(i, key)
           r == getValue(store, k, fault)
           result == IF IsThrown(r.result) THEN r.result ELSE decode(i, r.result)
           parse == IF ~IsThrown(r.result) /\ decodes(i, r.result)
                    THEN <<PrimCall("JSON.parse", "", r.result, 0)>> ELSE <<>>
       IN last' = [Called("get", i, key, Undefined, 0, fault, result,
                          PrimCall("getValue", k, Undefined, 0), k, store)
                     EXCEPT !.calls = @ \o parse]
    /\ nops' = nops + 1
    /\ UNCHANGED <<Config, built, adds, store, src, BatchVars>>

\* a slip: the value is decoded as in get before it is tested
existsDecodes(i, key, fault) ==
    /\ nops < MaxOps
    /\ LET k == buildKey(i, key)
           r == getValue(store, k, fault)
           result == IF IsThrown(r.result) THEN r.result
                     ELSE Bool(decode(i, r.result) # False)
       IN last' = Called("exists", i, key, Undefined, 0, fault, result,
                         PrimCall("getValue", k, Undefined, 0), k, store)
    /\ nops' = nops + 1
    /\ UNCHANGED <<Config, built, adds, store, src, BatchVars>>

exists(i, key, fault) ==
    /\ nops < MaxOps
    /\ LET k == buildKey(i, key)
           r == getValue(store, k, fault)
           result == IF IsThrown(r.result) THEN r.result ELSE Bool(r.result # False)
       IN last' = Called("exists", i, key, Undefined, 0, fault, result,
                         PrimCall("getValue", k, Undefined, 0), k, store)
    /\ nops' = nops + 1
    /\ UNCHANGED <<Config, built, adds, store, src, BatchVars>>

set(i, key, value, duration, fault) ==
    /\ nops < MaxOps
    /\ LET k == buildKey(i, key)
           v == encode(i, value)
           r == setValue(store, k, v, duration, fault)
       IN /\ store' = r.store
          /\ src' = IF r.result = Bool(TRUE)
                    THEN Note(k, Wrote("set", i, key, value)) ELSE src
          /\ last' = Called("set", i, key, value, duration, fault, r.result,
                            PrimCall("setValue", k, v, duration), k, r.store)
    /\ nops' = nops + 1
    /\ UNCHANGED <<Config, built, adds, BatchVars>>

add(i, key, value, duration, fault) ==
    /\ nops < MaxOps
    /\ LET k == buildKey(i, key)
           v == encode(i, value)
           r == addCall(store, k, v, duration, fault)
       IN /\ store' = r.store
          /\ src' = IF r.result = Bool(TRUE) THEN Note(k, Wrote("add", i, key, value))
                    ELSE IF k \in DOMAIN store /\ fault = "ok"
                    THEN Note(k, [SrcOf(k) EXCEPT !.refused = TRUE])
                    ELSE src
          /\ last' = Called("add", i, key, value, duration, fault, r.result,
                            PrimCall("addValue", k, v, duration), k, r.store)
    /\ nops' = nops + 1
    /\ UNCHANGED <<Config, built, adds, BatchVars>>

\* a slip: delete delegating to the primitive that clears the store
deleteFlushes(i, key, fault) ==
    /\ nops < MaxOps
    /\ LET k == buildKey(i, key)
           r == flushValues(store, fault)
       IN /\ store' = r.store
          /\ src' = IF r.result = Bool(TRUE) THEN Note(k, Gone("delete")) ELSE src
          /\ last' = Called("delete", i, key, Undefined, 0, fault, r.result,
                            PrimCall("flushValues", "", Undefined, 0), k, r.store)
    /\ nops' = nops + 1
    /\ UNCHANGED <<Config, built, adds, BatchVars>>

delete(i, key, fault) ==
    /\ nops < MaxOps
    /\ LET k == buildKey(i, key)
           r == deleteValue(store, k, fault)
       IN /\ store' = r.store
          /\ src' = IF r.result = Bool(TRUE) THEN Note(k, Gone("delete")) ELSE src
          /\ last' = Called("delete", i, key, Undefined, 0, fault, r.result,
                            PrimCall("deleteValue", k, Undefined, 0), k, r.store)
    /\ nops' = nops + 1
    /\ UNCHANGED <<Config, built, adds, BatchVars>>

flush(i, fault) ==
    /\ nops < MaxOps
    /\ LET r == flushCall(i, store, fault)
       IN /\ store' = r.store
          /\ src' = IF r.result = Bool(TRUE)
                    THEN [k \in DOMAIN src \cup DOMAIN store |->
                            IF k \in DOMAIN store
                            THEN [Gone("flush") EXCEPT !.inst = i] ELSE src[k]]
                    ELSE src
          /\ last' = [NoCall EXCEPT !.op = "flush", !.inst = i, !.fault = fault,
                                    !.result = r.result,
                                    !.calls = <<PrimCall("flushValues", "", Undefined, 0)>>,
                                    !.afterBatch = Resolved]
    /\ nops' = nops + 1
    /\ UNCHANGED <<Config, built, adds, BatchVars>>

(***************************************************************************)
(* multiGet, with the default getValues.  keyMap and results are plain     *)
(* objects: a cache key used as a property name is coerced to a string,    *)
(* and a later assignment to the same name replaces the earlier one.       *)
(***************************************************************************)
Range(seq) == {seq[j] : j \in 1..Len(seq)}

\* keyMap after the loop over keys: property name -> storage key
keyMapOf(i, keys) ==
    [p \in {ToStringJS(keys[j]) : j \in 1..Len(keys)} |->
        LET j == CHOOSE j \in 1..Len(keys) :
                    /\ ToStringJS(keys[j]) = p
                    /\ \A h \in (j + 1)..Len(keys) : ToStringJS(keys[h]) # p
        IN buildKey(i, keys[j])]

\* a slip: only the storage keys that hold a value get an entry
getValuesPresent(st, ks) ==
    [k \in {x \in ks : getValue(st, x, "ok").result # False} |->
        getValue(st, k, "ok").result]

\* the default getValues: one getValue per storage key, every result kept
getValues(st, ks) == [k \in ks |-> getValue(st, k, "ok").result]

\* results[key] for one property of keyMap
multiGetEntry(i, values, newKey) ==
    IF newKey \in DOMAIN values /\ values[newKey] # Undefined
    THEN (IF ~serialization[i] THEN values[newKey] ELSE JSONparse(values[newKey]))
    ELSE False

multiGet(i, keys) ==
    /\ nops < MaxOps
    /\ LET keyMap == keyMapOf(i, keys)
           values == getValues(store, {keyMap[p] : p \in DOMAIN keyMap})
           results == [p \in DOMAIN keyMap |-> multiGetEntry(i, values, keyMap[p])]
           thrown == {p \in DOMAIN results : IsThrown(results[p])}
       IN last' = [NoCall EXCEPT !.op = "multiGet", !.inst = i, !.keys = keys,
                                 !.values = values,
                                 !.map = IF thrown = {} THEN results ELSE EmptyMap,
                                 !.result = IF thrown = {} THEN Undefined
                                            ELSE SyntaxError,
                                 !.afterBatch = Resolved]
    /\ nops' = nops + 1
    /\ UNCHANGED <<Config, built, adds, store, src, BatchVars>>

\* what get(key) returns on the present store
getNow(i, key) == decode(i, getValue(store, buildKey(i, key), "ok").result)

\* result[key], as the caller of multiGet reads it
Lookup(map, key) ==
    IF ToStringJS(key) \in DOMAIN map THEN map[ToStringJS(key)] ELSE Undefined

(***************************************************************************)
(* multiSet and multiAdd, with the default setValues and addValues.        *)
(*                                                                         *)
(* items is the list of (name, value) properties of the caller's object.   *)
(* The call builds data, then setValues/addValues runs _.forEach with an   *)
(* async callback: every callback runs up to its await, which issues the   *)
(* primitive call, and forEach returns without waiting for any of them.    *)
(* So the synchronous part of the call issues all the primitive calls and  *)
(* returns the failedKeys array, still empty.  After that, in any order:   *)
(* the backend performs a call (perform), the callback awaiting it resumes *)
(* and pushes the key if the result is false (resume), and the promise of  *)
(* multiSet/multiAdd resolves with the array (resolve).                    *)
(***************************************************************************)
\* data after the loop over items: storage key -> encoded value
dataOf(i, items) ==
    [k \in {buildKey(i, Str(items[j].k)) : j \in 1..Len(items)} |->
        LET j == CHOOSE j \in 1..Len(items) :
                    /\ buildKey(i, Str(items[j].k)) = k
                    /\ \A h \in (j + 1)..Len(items) : buildKey(i, Str(items[h].k)) # k
        IN encode(i, items[j].v)]

\* a slip: the per-item calls made without the duration
issueAllNoDuration(data, duration) ==
    [k \in DOMAIN data |-> [state |-> "called", value |-> data[k], duration |-> 0,
                            result |-> Undefined]]

\* setValues/addValues up to the return: one pending primitive call per key,
\* each with the value of the key and the duration of the batch
issueAll(data, duration) ==
    [k \in DOMAIN data |-> [state |-> "called", value |-> data[k],
                            duration |-> duration, result |-> Undefined]]

Settled == \A k \in DOMAIN tasks : tasks[k].state = "settled"

multiWrite(op, i, items, duration) ==
    /\ batch.n < MaxBatches
    /\ batch.state = "idle" \/ (batch.state = "resolved" /\ Settled)
    /\ batch' = [op |-> op, inst |-> i, items |-> items, duration |-> duration,
                 state |-> "pending", n |-> batch.n + 1]
    /\ tasks' = issueAll(dataOf(i, items), duration)
    /\ failedKeys' = <<>>
    /\ returned' = <<>>
    /\ unhandled' = {}
    /\ UNCHANGED <<Config, built, adds, store, src, last, nops>>

multiSet(i, items, duration) == multiWrite("multiSet", i, items, duration)

multiAdd(i, items, duration) == multiWrite("multiAdd", i, items, duration)

\* the backend performs the primitive call issued for storage key k
perform(k, fault) ==
    /\ k \in DOMAIN tasks
    /\ tasks[k].state = "called"
    /\ LET r == IF batch.op = "multiSet"
                THEN setValue(store, k, tasks[k].value, tasks[k].duration, fault)
                ELSE addValue(store, k, tasks[k].value, tasks[k].duration, fault)
       IN /\ store' = r.store
          /\ tasks' = [tasks EXCEPT ![k].state = "performed", ![k].result = r.result]
          /\ src' = IF r.result = Bool(TRUE)
                    THEN Note(k, Wrote(batch.op, batch.inst, Str(k), tasks[k].value))
                    ELSE src
    /\ UNCHANGED <<Config, built, adds, last, nops, batch, failedKeys, returned, unhandled>>

\* a slip: the failure reported under the caller's key of the item
pushCacheKey(k) ==
    IF tasks[k].result = Bool(FALSE)
    THEN Append(failedKeys,
                LET j == CHOOSE j \in 1..Len(batch.items) :
                            buildKey(batch.inst, Str(batch.items[j].k)) = k
                IN batch.items[j].k)
    ELSE failedKeys

\* the callback after its await: if (result === false) failedKeys.push(key)
pushOnResume(k) ==
    IF tasks[k].result = Bool(FALSE) THEN Append(failedKeys, k) ELSE failedKeys

resume(k) ==
    /\ k \in DOMAIN tasks
    /\ tasks[k].state = "performed"
    /\ tasks' = [tasks EXCEPT ![k].state = "settled"]
    /\ failedKeys' = pushOnResume(k)
    /\ unhandled' = IF IsThrown(tasks[k].result) THEN unhandled \cup {k} ELSE unhandled
    /\ UNCHANGED <<Config, built, adds, store, src, last, nops, batch, returned>>

\* the promise of multiSet/multiAdd resolves with the failedKeys array
resolve ==
    /\ batch.state = "pending"
    /\ batch' = [batch EXCEPT !.state = "resolved"]
    /\ returned' = failedKeys
    /\ UNCHANGED <<Config, built, adds, store, src, last, nops, tasks, failedKeys, unhandled>>

(***************************************************************************)
(* The backend expires an entry that was written with a duration.          *)
(***************************************************************************)
expire(k) ==
    /\ k \in DOMAIN store
    /\ store[k].duration > 0
    /\ store' = Without(store, {k})
    /\ src' = Note(k, Gone("expire"))
    /\ UNCHANGED <<Config, built, adds, last, nops, BatchVars>>

(***************************************************************************)
(* The inputs of the model.                                                *)
(***************************************************************************)
Keys == {Str("a"), Num(1)}
FalsyValues == {Bool(FALSE), Num(0), Str("")}
\* c1 caches structured values, c2 caches raw strings that expire
Values(i) ==
    IF i = "c1" THEN FalsyValues \cup {Obj(<<[k |-> "a", v |-> Num(1)]>>)}
    ELSE {Str(""), Str("raw")}
Durations(i) == IF i = "c1" THEN {0} ELSE {1}
Faults == {"ok", "fail"}

\* the tasks of the application that call add at the same time
MaxCallers == 2
Callers == 1..MaxCallers

NoAdd == [state |-> "idle", inst |-> "", key |-> Undefined, value |-> Undefined,
          call |-> PrimCall("none", "", Undefined, 0),
          result |-> Undefined, returned |-> Undefined]

NoBatch == [op |-> "none", inst |-> "", items |-> <<>>, duration |-> 0,
            state |-> "idle", n |-> 0]

Init ==
    /\ keyPrefix = [i \in Inst |-> IF i = "c1" THEN "" ELSE "p"]
    /\ serialization = [i \in Inst |-> i = "c1"]
    /\ store = EmptyMap
    /\ src = EmptyMap
    /\ last = NoCall
    /\ nops = 0
    /\ batch = NoBatch
    /\ tasks = EmptyMap
    /\ failedKeys = <<>>
    /\ returned = <<>>
    /\ unhandled = {}
    /\ built = {}
    /\ adds = [c \in Callers |-> NoAdd]

Next ==
    \/ \E i \in Inst, k \in Keys : get(i, k, "ok")
    \/ \E i \in Inst, k \in Keys : exists(i, k, "ok")
    \/ \E i \in Inst, k \in Keys, f \in Faults :
          \E v \in Values(i), d \in Durations(i) : set(i, k, v, d, f)
    \/ \E i \in Inst, k \in Keys, f \in Faults :
          \E v \in Values(i), d \in Durations(i) : add(i, k, v, d, f)
    \/ \E i \in Inst, k \in Keys, f \in Faults : delete(i, k, f)
    \/ \E i \in Inst, f \in Faults : flush(i, f)
    \/ \E k \in DOMAIN store : expire(k)

Spec == Init /\ [][Next]_vars

(***************************************************************************)
(* Reading in batches: the store is filled by set, then read by get and    *)
(* by multiGet, with string, number and structured keys.                   *)
(***************************************************************************)
MaxKeys == 2

GetKeys == {Str("1"), Num(1), Str("a"),
            Obj(<<[k |-> "id", v |-> Num(1)]>>), Obj(<<[k |-> "id", v |-> Num(2)]>>)}

GetValues(i) == IF i = "c1" THEN {Num(0), Str("")} ELSE {Str("raw")}

KeyLists == UNION {[1..n -> GetKeys] : n \in 0..MaxKeys}

NextGet ==
    \/ \E i \in Inst, k \in GetKeys :
          \E v \in GetValues(i), d \in Durations(i) : set(i, k, v, d, "ok")
    \/ \E i \in Inst, k \in GetKeys : get(i, k, "ok")
    \/ \E i \in Inst, keys \in KeyLists : multiGet(i, keys)

SpecGet == Init /\ [][NextGet]_vars

(***************************************************************************)
(* Writing in batches: up to MaxBatches calls of multiSet/multiAdd, one    *)
(* after the other, and get once the promise of a call has resolved.       *)
(***************************************************************************)
ItemNames == <<"a", "b">>
TaskFaults == {"ok", "fail", "reject"}

\* the objects the n-th call may be given: any of the names, in the order of
\* ItemNames, each with a value that no other item and no other call uses
ItemValue(n, j) == Num(Len(ItemNames) * (n - 1) + j)

ItemList(n, names) ==
    LET RECURSIVE Pick(_)
        Pick(j) == IF j > Len(ItemNames) THEN <<>>
                   ELSE (IF ItemNames[j] \in names
                         THEN <<[k |-> ItemNames[j], v |-> ItemValue(n, j)]>>
                         ELSE <<>>) \o Pick(j + 1)
    IN Pick(1)

ItemLists(n) == {ItemList(n, names) : names \in SUBSET Range(ItemNames)}

NextBatch ==
    \/ \E i \in Inst, items \in ItemLists(batch.n + 1) :
          \E d \in Durations(i) : multiSet(i, items, d)
    \/ \E i \in Inst, items \in ItemLists(batch.n + 1) :
          \E d \in Durations(i) : multiAdd(i, items, d)
    \/ \E k \in DOMAIN tasks, f \in TaskFaults : perform(k, f)
    \/ \E k \in DOMAIN tasks : resume(k)
    \/ resolve
    \/ \E k \in Range(ItemNames) :
          Resolved > last.afterBatch /\ get(batch.inst, Str(k), "ok")

SpecBatch == Init /\ [][NextBatch]_vars

(***************************************************************************)
(* Properties of multiSet and multiAdd with the default batch writers.     *)
(***************************************************************************)
\* the value the running batch call was given for the cache key
ItemOf(key) ==
    LET j == CHOOSE j \in 1..Len(batch.items) : Str(batch.items[j].k) = key
    IN batch.items[j].v

\* C1: when the promise of multiSet/multiAdd resolves, the list it returns
\* holds exactly the storage keys whose setValue/addValue reported false,
\* whatever the order and timing of the per-key calls.
C1_FailedKeysComplete ==
    (batch.state = "resolved" /\ Settled)
        => Range(returned) = {k \in DOMAIN tasks : tasks[k].result = Bool(FALSE)}

\* C2: every per-item call has completed before the promise of
\* multiSet/multiAdd resolves, so a get(k) started after that returns the
\* value written for every item k whose write succeeded.
C2_WritesDoneAtResolve ==
    /\ batch.state = "resolved" => Settled
    /\ (/\ Settled
        /\ last.op = "get"
        /\ last.afterBatch = batch.n
        /\ buildKey(last.inst, last.key) \in DOMAIN tasks
        /\ tasks[buildKey(last.inst, last.key)].result = Bool(TRUE))
          => last.result = ItemOf(last.key)

\* C3: a per-item call that rejects puts its storage key in the failed-keys
\* list, while the other items are attempted and the batch call resolves.
C3_RejectedCountsAsFailed ==
    (batch.state = "resolved" /\ Settled)
        => \A k \in DOMAIN tasks : IsThrown(tasks[k].result) => k \in Range(failedKeys)

(***************************************************************************)
(* Properties of multiGet.                                                 *)
(***************************************************************************)
\* C4: with the default getValues and an unchanged store, multiGet(keys)
\* returns for every key of keys the value an independent get of that key
\* returns, for every list of keys and both serialization settings.
C4_MultiGetEqualsGets ==
    (last.op = "multiGet" /\ ~IsThrown(last.result))
        => \A key \in Range(last.keys) :
              Lookup(last.map, key) = getNow(last.inst, key)

\* C5: the mapping multiGet returns has exactly one entry per distinct
\* input cache key: distinct keys never share an entry.
C5_OneEntryPerKey ==
    (last.op = "multiGet" /\ ~IsThrown(last.result))
        => Cardinality(DOMAIN last.map) = Cardinality(Range(last.keys))

(***************************************************************************)
(* Properties of the single-key operations.                                *)
(***************************************************************************)
\* the last call read the storage key that op last wrote, through the
\* same instance and with the same cache key, with nothing in between
ReadsBack(op) ==
    /\ last.op = "get"
    /\ last.fault = "ok"
    /\ last.was.op = op
    /\ last.was.inst = last.inst
    /\ last.was.key = last.key

\* C6: get(k) after a successful set(k, v) of a falsy value v (false, 0 or
\* the empty string) never returns the absence sentinel.
C6_FalsyIsNotAbsent ==
    (ReadsBack("set") /\ last.was.value \in FalsyValues) => last.result # False

\* C7: with serialization enabled, get(k) after a set(k, v) that returned
\* true, with nothing happening to k in between, returns a value equal to v.
C7_RoundTripSerialized ==
    (ReadsBack("set") /\ serialization[last.inst]) => last.result = last.was.value

C7_Witness ==
    /\ ReadsBack("set")
    /\ serialization[last.inst]
    /\ last.was.value.t = "object"
    /\ last.result = last.was.value

\* C8: with serialization disabled, set(k, s) of a string s hands s itself
\* to setValue, and get(k) after a set(k, s) that returned true, with
\* nothing happening to k in between, returns exactly s.
C8_RoundTripRaw ==
    /\ (last.op = "set" /\ ~serialization[last.inst] /\ isString(last.value))
          => last.calls[1].value = last.value
    /\ (ReadsBack("set") /\ ~serialization[last.inst] /\ isString(last.was.value))
          => (last.result = last.was.value /\ last.before = last.was.value)

C8_Witness ==
    /\ ReadsBack("set")
    /\ ~serialization[last.inst]
    /\ last.was.value = Str("raw")
    /\ last.result = Str("raw")

\* C9: with a backend that performs the call, add(k, v1) on a key with no
\* entry returns true and stores v1; an add(k, v2) while the entry is
\* present returns false and leaves the entry as it was; and get(k) after
\* that still returns v1.
C9_AddSemantics ==
    /\ (last.op = "add" /\ last.fault = "ok" /\ last.before = Undefined)
          => (last.result = Bool(TRUE) /\ last.after = encode(last.inst, last.value))
    /\ (last.op = "add" /\ last.before # Undefined)
          => (last.result = Bool(FALSE) /\ last.after = last.before)
    /\ ReadsBack("add") => last.result = last.was.value

C9_Witness ==
    /\ ReadsBack("add")
    /\ last.was.refused
    /\ last.result = last.was.value
    /\ last.result \in {Str("raw"), Obj(<<[k |-> "a", v |-> Num(1)]>>)}

\* C10: after a flush that returned true, through any instance, exists(k)
\* returns false for every key that held an entry at the flush and was not
\* written since.
C10_FlushClearsEveryPrefix ==
    (last.op = "exists" /\ last.fault = "ok" /\ last.was.op = "flush")
        => last.result = Bool(FALSE)

C10_Witness ==
    /\ last.op = "exists"
    /\ last.was.op = "flush"
    /\ last.was.inst # last.inst
    /\ last.result = Bool(FALSE)

(***************************************************************************)
(* Sharing one store: the two instances use cache keys of which one is the *)
(* other behind the prefix of c2, and read and write the same store.       *)
(***************************************************************************)
ShareKeys == {Str("a"), Str("pa")}

NextShare ==
    \/ \E i \in Inst, k \in ShareKeys : get(i, k, "ok")
    \/ \E i \in Inst, k \in ShareKeys : exists(i, k, "ok")
    \/ \E i \in Inst, k \in ShareKeys :
          \E v \in Values(i), d \in Durations(i) : set(i, k, v, d, "ok")
    \/ \E i \in Inst, k \in ShareKeys :
          \E v \in Values(i), d \in Durations(i) : add(i, k, v, d, "ok")
    \/ \E i \in Inst, k \in ShareKeys : delete(i, k, "ok")

SpecShare == Init /\ [][NextShare]_vars

\* what exists(key) returns on the present store
existsNow(i, key) == Bool(getValue(store, buildKey(i, key), "ok").result # False)

\* C11: a set, add or delete of any key through an instance never changes
\* what get(k2) or exists(k2) returns through an instance with a different
\* prefix, for any key k2.
C11_PrefixesIsolate ==
    [][\A i2 \in Inst, k2 \in ShareKeys :
          (/\ nops' = nops + 1
           /\ last'.op \in {"set", "add", "delete"}
           /\ keyPrefix[last'.inst] # keyPrefix[i2])
             => (/\ getNow(i2, k2)' = getNow(i2, k2)
                 /\ existsNow(i2, k2)' = existsNow(i2, k2))]_vars

(***************************************************************************)
(* buildKey called by the application (it is a public method), between     *)
(* other operations.  It assigns to nothing; built keeps what it returned. *)
(***************************************************************************)
buildKeyCall(i, key) ==
    /\ nops < MaxOps
    /\ built' = built \cup {[inst |-> i, key |-> key, result |-> buildKey(i, key),
                             at |-> nops + 1]}
    /\ last' = [NoCall EXCEPT !.op = "buildKey", !.inst = i, !.key = key,
                              !.result = Str(buildKey(i, key)),
                              !.afterBatch = Resolved]
    /\ nops' = nops + 1
    /\ UNCHANGED <<Config, adds, store, src, BatchVars>>

\* short and long strings, a string that is a digest, a string that is a
\* JSON text, a number, and objects with the same fields in both orders
KeyKeys ==
    {Str("a"), Str(DigestOf1), Str(LongKey), Str(LongText), Num(1),
     Obj(<<[k |-> "n", v |-> Str(LongKey)]>>),
     Obj(<<[k |-> "id", v |-> Num(1)]>>),
     Obj(<<[k |-> "id", v |-> Num(1)], [k |-> "tag", v |-> Str("x")]>>),
     Obj(<<[k |-> "tag", v |-> Str("x")], [k |-> "id", v |-> Num(1)]>>)}

NextKey ==
    \/ \E i \in Inst, key \in KeyKeys : buildKeyCall(i, key)
    \/ \E i \in Inst : \E v \in GetValues(i), d \in Durations(i) :
          set(i, Str("a"), v, d, "ok")
    \/ \E i \in Inst : delete(i, Str("a"), "ok")
    \/ \E i \in Inst : flush(i, "ok")

SpecKey == Init /\ [][NextKey]_vars

(***************************************************************************)
(* Properties of buildKey.                                                 *)
(***************************************************************************)
\* the key goes through the hash: a long string or a non-string
Hashed(key) == ~isString(key) \/ Len(key.s) > MaxPlainKey

\* the text that is hashed
CanonicalText(key) == IF isString(key) THEN key.s ELSE JSONstringify(key)

\* C12: within one prefix, two distinct cache keys get the same storage key
\* only when the hash maps two different canonical texts to one digest; so
\* a short string never collides with a hashed key, and a long string never
\* collides with a non-string key.
C12_CollideOnlyByHash ==
    \A r1, r2 \in built :
        (r1.inst = r2.inst /\ r1.key # r2.key /\ r1.result = r2.result)
            => (/\ Hashed(r1.key)
                /\ Hashed(r2.key)
                /\ CanonicalText(r1.key) # CanonicalText(r2.key))

\* the fields of an object, whatever the order they were inserted in
Fields(v) == {v.f[j] : j \in 1..Len(v.f)}

StructEq(a, b) ==
    /\ a.t = b.t /\ a.b = b.b /\ a.n = b.n /\ a.s = b.s
    /\ Fields(a) = Fields(b)

\* C13: for non-string keys buildKey returns the prefix followed by a
\* digest, the same for two structurally-equal keys (same fields and values,
\* in whatever order the fields were inserted) and different for two
\* structurally-different keys.
C13_StructuralKeys ==
    \A r1, r2 \in built :
        (r1.inst = r2.inst /\ ~isString(r1.key) /\ ~isString(r2.key))
            => (/\ Len(r1.result) = Len(keyPrefix[r1.inst]) + DigestLen
                /\ StructEq(r1.key, r2.key) <=> r1.result = r2.result)

ReadFaults == {"ok", "reject"}

NextFault ==
    \/ \E i \in Inst, f \in ReadFaults : get(i, Str("a"), f)
    \/ \E i \in Inst, f \in ReadFaults : exists(i, Str("a"), f)
    \/ \E i \in Inst, f \in TaskFaults :
          \E v \in GetValues(i), d \in Durations(i) : set(i, Str("a"), v, d, f)
    \/ \E i \in Inst, f \in TaskFaults :
          \E v \in GetValues(i), d \in Durations(i) : add(i, Str("a"), v, d, f)
    \/ \E i \in Inst, f \in TaskFaults : delete(i, Str("a"), f)
    \/ \E i \in Inst, f \in TaskFaults : flush(i, f)

SpecFault == Init /\ [][NextFault]_vars

WriteOps == {"set", "add", "delete", "flush"}

\* C15: in get, exists, set, add, delete and flush a primitive call that
\* rejects makes the public call reject with that failure, and a primitive
\* that reports a boolean makes set, add, delete and flush return exactly
\* that boolean.
C15_FaultsPropagate ==
    /\ (last.op \in WriteOps \cup {"get", "exists"} /\ last.fault = "reject")
          => last.result = BackendFault
    /\ (last.op \in WriteOps /\ last.fault = "fail") => last.result = Bool(FALSE)
    /\ (last.op \in {"set", "delete", "flush"} /\ last.fault = "ok")
          => last.result = Bool(TRUE)
    /\ (last.op = "add" /\ last.fault = "ok")
          => last.result = Bool(last.before = Undefined)

C15_Witness ==
    /\ last.op = "get"
    /\ last.fault = "reject"
    /\ last.before # Undefined
    /\ last.result = BackendFault

(***************************************************************************)
(* Properties of get and exists on a store that holds texts of both        *)
(* instances.                                                              *)
(***************************************************************************)
\* the JSON.parse calls of the last call
Parsed == {c \in Range(last.calls) : c.prim = "JSON.parse"}

\* C16: when getValue signals absence, get returns the absence sentinel
\* and JSON.parse is not applied to it, whatever the serialization flag;
\* JSON.parse is applied only to a present value and only when
\* serialization is enabled.
C16_AbsenceNotDecoded ==
    (last.op = "get" /\ last.fault = "ok")
        => (/\ last.before = Undefined => (last.result = False /\ Parsed = {})
            /\ Parsed # {} => (/\ serialization[last.inst]
                               /\ last.before # Undefined
                               /\ \A c \in Parsed : c.value = last.before))

C16_Witness ==
    /\ last.op = "get"
    /\ serialization[last.inst]
    /\ last.was.op = "delete"
    /\ last.before = Undefined
    /\ last.result = False
    /\ Parsed = {}

(***************************************************************************)
(* What the failed-keys list of multiSet/multiAdd holds.                   *)
(***************************************************************************)
\* C17: at any time, every element of the list multiSet/multiAdd returns
\* is the storage key of an input item whose setValue/addValue reported
\* false: never a caller-facing key, a key that is not of the input, or the
\* key of an item that was written; the list is empty when every write
\* succeeded.
C17_OnlyFailedStorageKeys ==
    /\ \A k \in Range(failedKeys) \cup Range(returned) :
          /\ k \in DOMAIN tasks
          /\ tasks[k].result = Bool(FALSE)
          /\ \E j \in 1..Len(batch.items) :
                k = keyPrefix[batch.inst] \o batch.items[j].k
    /\ (\A k \in DOMAIN tasks : tasks[k].result = Bool(TRUE))
          => (failedKeys = <<>> /\ returned = <<>>)

C17_Witness ==
    /\ batch.op = "multiAdd"
    /\ batch.inst = "c2"
    /\ Settled
    /\ failedKeys = <<"pa">>
    /\ "pb" \in DOMAIN tasks
    /\ tasks["pb"].result = Bool(TRUE)

(***************************************************************************)
(* The default getValues, as multiGet calls it: a store filled by set and  *)
(* emptied by delete, read with lists of up to MaxKeys keys.               *)
(***************************************************************************)
ValueKeyLists == UNION {[1..n -> Keys] : n \in 0..MaxKeys}

NextValues ==
    \/ \E i \in Inst, k \in Keys :
          \E v \in GetValues(i), d \in Durations(i) : set(i, k, v, d, "ok")
    \/ \E i \in Inst, k \in Keys : delete(i, k, "ok")
    \/ \E i \in Inst, keys \in ValueKeyLists : multiGet(i, keys)

SpecValues == Init /\ [][NextValues]_vars

\* the storage keys multiGet asked getValues for
Asked == {buildKey(last.inst, key) : key \in Range(last.keys)}

\* C18, as claimed: the mapping the default getValues returns has an entry
\* only for the storage keys whose getValue returned a present value; a
\* storage key whose getValue returned the absence sentinel is omitted.
C18_AbsentKeysOmitted ==
    last.op = "multiGet"
        => DOMAIN last.values = {k \in Asked : k \in DOMAIN store}

\* C18, amended: the mapping the default getValues returns has an entry for
\* every storage key asked for: the value getValue returned for it, which
\* is the absence sentinel for a storage key with no entry.
C18_EveryKeyHasAnEntry ==
    last.op = "multiGet"
        => (/\ DOMAIN last.values = Asked
            /\ \A k \in Asked :
                  last.values[k] = IF k \in DOMAIN store THEN store[k].value
                                   ELSE False)

C18_Witness ==
    /\ last.op = "multiGet"
    /\ Len(last.keys) = 2
    /\ \E k1, k2 \in DOMAIN last.values :
          /\ k1 \in DOMAIN store
          /\ last.values[k1] = store[k1].value
          /\ k2 \notin DOMAIN store
          /\ last.values[k2] = False

\* C19: exists(k) returns true exactly when the storage key of k holds an
\* entry, whatever the serialization flag and without decoding: true for an
\* encoded false, 0 or empty string, a raw empty string and a text that
\* cannot be decoded, false only for a key with no entry.
C19_ExistsIsPresence ==
    (last.op = "exists" /\ last.fault = "ok")
        => (/\ last.result = Bool(last.before # Undefined)
            /\ Parsed = {})

C19_Witness ==
    /\ last.op = "exists"
    /\ serialization[last.inst]
    /\ last.was.value = Bool(FALSE)
    /\ last.before = Str("false")
    /\ last.result = Bool(TRUE)

(***************************************************************************)
(* Durations: writes of one key and batches, with a duration given or      *)
(* left out, on a backend that performs every call and expires entries.    *)
(***************************************************************************)
\* the default value of the duration parameter of set, add, multiSet, multiAdd
DefaultDuration == 0

GivenDurations == {2}

\* no batch call is running
Quiet == batch.state = "idle" \/ (batch.state = "resolved" /\ Settled)

\* the object with an item of every name
BothItems(n) == ItemList(n, Range(ItemNames))

\* the calls are made one after the other, through the instance c2
NextDuration ==
    \/ \E d \in GivenDurations : Quiet /\ set("c2", Str("a"), Str("raw"), d, "ok")
    \/ Quiet /\ set("c2", Str("a"), Str("raw"), DefaultDuration, "ok")
    \/ \E d \in GivenDurations : Quiet /\ add("c2", Str("a"), Str("raw"), d, "ok")
    \/ Quiet /\ add("c2", Str("a"), Str("raw"), DefaultDuration, "ok")
    \/ \E d \in GivenDurations :
          \/ multiSet("c2", BothItems(batch.n + 1), d)
          \/ multiAdd("c2", BothItems(batch.n + 1), d)
    \/ multiSet("c2", BothItems(batch.n + 1), DefaultDuration)
    \/ multiAdd("c2", BothItems(batch.n + 1), DefaultDuration)
    \/ \E k \in DOMAIN tasks : perform(k, "ok")
    \/ \E k \in DOMAIN tasks : resume(k)
    \/ resolve
    \/ Quiet /\ delete("c2", Str("a"), "ok")
    \/ \E k \in DOMAIN store : Quiet /\ expire(k)

SpecDuration == Init /\ [][NextDuration]_vars

\* C20: set and add pass the duration they are given to exactly one
\* setValue/addValue call, multiSet and multiAdd pass their one duration to
\* every per-item call of the batch, a duration left out is passed as 0, and
\* an entry goes away only by delete, flush or the backend's expiry.
C20_DurationForwarded ==
    /\ last.op \in {"set", "add"}
          => (/\ Len(last.calls) = 1
              /\ last.calls[1].prim = (IF last.op = "set" THEN "setValue" ELSE "addValue")
              /\ last.calls[1].duration = last.duration)
    /\ \A k \in DOMAIN tasks :
          /\ tasks[k].duration = batch.duration
          /\ (/\ tasks[k].result = Bool(TRUE)
              /\ k \in DOMAIN store
              /\ SrcOf(k).op \in {"multiSet", "multiAdd"})
                => store[k].duration = batch.duration
    /\ \A k \in DOMAIN src :
          k \notin DOMAIN store
              => (src[k].op \in {"delete", "flush", "expire"} /\ src[k] = Gone(src[k].op))

C20_Witness ==
    /\ batch.duration = 2
    /\ Settled
    /\ Cardinality(DOMAIN tasks) = 2
    /\ \A k \in DOMAIN tasks : k \in DOMAIN store /\ store[k].duration = 2
    /\ last.op = "set"
    /\ last.duration = DefaultDuration
    /\ last.calls[1].duration = 0

(***************************************************************************)
(* The frame of the single-key operations.                                 *)
(***************************************************************************)
\* the backend primitive an operation delegates to
PrimOf(op) ==
    CASE op = "set" -> "setValue"
      [] op = "add" -> "addValue"
      [] op = "delete" -> "deleteValue"
      [] op \in {"get", "exists"} -> "getValue"

\* the calls of backend primitives among the calls of a public call
BackendCalls(rec) == SelectSeq(rec.calls, LAMBDA c : c.prim # "JSON.parse")

\* C21: each of set, add, delete, get and exists issues exactly one call of
\* its backend primitive, on the storage key of its cache key; get and
\* exists write nothing; and every entry of the store under another
\* storage key is as it was before the call.
C21_OneCallOneKey ==
    [][(nops' = nops + 1 /\ last'.op \in {"set", "add", "delete", "get", "exists"})
          => LET k == buildKey(last'.inst, last'.key)
                 calls == BackendCalls(last')
             IN /\ Len(calls) = 1
                /\ calls[1].prim = PrimOf(last'.op)
                /\ calls[1].key = k
                /\ \A x \in (DOMAIN store \cup DOMAIN store') \ {k} :
                      /\ x \in DOMAIN store
                      /\ x \in DOMAIN store'
                      /\ store'[x] = store[x]
                /\ last'.op \in {"get", "exists"} => store' = store]_vars

C21_Witness ==
    /\ last.op = "delete"
    /\ last.result = Bool(TRUE)
    /\ last.before # Undefined
    /\ last.after = Undefined
    /\ last.calls[1].key = "pa"
    /\ "a" \in DOMAIN store

(***************************************************************************)
(* add called by several tasks at the same time.  A call runs up to its    *)
(* await, which issues its one primitive call (addStart); the backend      *)
(* performs the calls one by one, in any order (addPerform); and the call  *)
(* returns what its primitive call resolved to (addReturn).                *)
(***************************************************************************)
\* a slip: the unconditional write issued
addIssueSet(i, key, value, duration) ==
    PrimCall("setValue", buildKey(i, key), encode(i, value), duration)

\* add up to its await: the primitive call it issues
addIssue(i, key, value, duration) ==
    PrimCall("addValue", buildKey(i, key), encode(i, value), duration)

addStart(c, i, key, value, duration) ==
    /\ adds[c].state = "idle"
    /\ adds' = [adds EXCEPT ![c] = [NoAdd EXCEPT !.state = "called", !.inst = i,
                                                 !.key = key, !.value = value,
                                                 !.call = addIssue(i, key, value, duration)]]
    /\ UNCHANGED <<Config, built, store, src, last, nops, BatchVars>>

\* the backend performs the primitive call of caller c, atomically
addPerform(c) ==
    /\ adds[c].state = "called"
    /\ LET call == adds[c].call
           r == IF call.prim = "addValue"
                THEN addValue(store, call.key, call.value, call.duration, "ok")
                ELSE setValue(store, call.key, call.value, call.duration, "ok")
       IN /\ store' = r.store
          /\ src' = IF r.result = Bool(TRUE)
                    THEN Note(call.key, Wrote("add", adds[c].inst, adds[c].key,
                                              adds[c].value))
                    ELSE src
          /\ adds' = [adds EXCEPT ![c].state = "performed", ![c].result = r.result]
    /\ UNCHANGED <<Config, built, last, nops, BatchVars>>

\* return await this.addValue(...)
addReturn(c) ==
    /\ adds[c].state = "performed"
    /\ adds' = [adds EXCEPT ![c].state = "returned", ![c].returned = adds[c].result]
    /\ UNCHANGED <<Config, built, store, src, last, nops, BatchVars>>

\* the value caller c adds
AddValueOf(c) == Num(c)

NextAdds ==
    \/ \E c \in Callers, i \in Inst, key \in ShareKeys :
          \E d \in Durations(i) : addStart(c, i, key, AddValueOf(c), d)
    \/ \E c \in Callers : addPerform(c)
    \/ \E c \in Callers : addReturn(c)

SpecAdds == Init /\ [][NextAdds]_vars

\* the callers that called add for the storage key k
AddersOf(k) == {c \in Callers : adds[c].state # "idle" /\ adds[c].call.key = k}

\* C22: with a backend whose addValue is atomic, when several add calls for
\* one absent key run at the same time, in whatever order the backend
\* performs them and they return, exactly one returns true, all the
\* others return false, and the value stored is the one of the call that
\* returned true.
C22_OneAddWins ==
    \A k \in {adds[c].call.key : c \in Callers} :
        (AddersOf(k) # {} /\ \A c \in AddersOf(k) : adds[c].state = "returned")
            => \E w \in AddersOf(k) :
                  /\ adds[w].returned = Bool(TRUE)
                  /\ \A c \in AddersOf(k) \ {w} : adds[c].returned = Bool(FALSE)
                  /\ k \in DOMAIN store
                  /\ store[k].value = encode(adds[w].inst, adds[w].value)

C22_Witness ==
    /\ \A c \in Callers : adds[c].state = "returned" /\ adds[c].call.key = "pa"
    /\ adds[1].inst # adds[2].inst
    /\ adds[2].returned = Bool(TRUE)
    /\ adds[1].returned = Bool(FALSE)
    /\ store["pa"].value = encode(adds[2].inst, adds[2].value)

====
